---------------------------- MODULE Spec2Model ----------------------------
(***************************************************************************)
(* Model of demand_forecast_dashboard.py: a Streamlit script that is       *)
(* re-executed from its first line on every widget interaction.            *)
(*                                                                         *)
(*   Spec        the dashboard: simulate_data, the sidebar filters, the    *)
(*               Reset button, the editable forecasts and the WMAPE loop   *)
(*   SpecWmape   the WMAPE computation of tab2 on arbitrary series         *)
(*   SpecPromo   the promo volume impact of tab6 on arbitrary rows         *)
(*   SpecSharpe  the Sharpe ratio of tab5 on arbitrary series              *)
(*   SpecSeries  the sequence-valued metrics of tab1, tab3 and tab4        *)
(*                                                                         *)
(* Floating-point numbers are exact rationals [kind, n, d] in lowest terms *)
(* plus the IEEE specials nan and inf; rounding is not modelled.           *)
(***************************************************************************)
EXTENDS Integers, Sequences, FiniteSets, TLC

VARIABLES
    \* the metric computations on one series
    pc,                 \* position of the computation under study
    actuals,            \* df_hist['Actuals'] handed to a metric
    forecast,           \* df_future['Model_k_Forecast'].values handed to WMAPE
    aligned,            \* the slice of actuals the WMAPE loop compares with
    wmape,              \* the WMAPE of the model under study
    promo,              \* df_hist['Promo'], aligned with actuals
    promo_impact,       \* tab6
    returns,            \* tab5: df_hist['Actuals'].pct_change()
    sharpe_ratio,       \* tab5
    metric,             \* the text st.metric shows in tab5 / tab6
    n_future,           \* rows of df_future appended to df_plot in tab1
    moving_avg_weeks,   \* the sidebar multiselect
    df_plot,            \* tab1: the Actuals column and its MA_<window> columns
    df_metrics,         \* tab3 and tab4: the indicator columns
    \* the dashboard session
    cache,              \* st.cache_data: the memoised result of simulate_data
    widget_identity,    \* how the installed Streamlit identifies a keyed widget
    store_selected,
    item_selected,
    region_selected,
    reset_pressed,      \* what st.sidebar.button returned in the last run
    session_state,      \* the number_input widgets forecast_model_<k>
    df_actuals,
    df_forecasts,
    original_forecasts,
    df_hist,
    df_future,
    wmape_scores,
    error               \* the exception that ended the last run, or ""

metricVars == <<pc, actuals, forecast, aligned, wmape, promo, promo_impact,
                returns, sharpe_ratio, metric, n_future, moving_avg_weeks,
                df_plot, df_metrics>>

dashVars == <<cache, widget_identity, store_selected, item_selected,
              region_selected, reset_pressed, session_state, df_actuals,
              df_forecasts, original_forecasts, df_hist, df_future,
              wmape_scores, error>>

vars == <<metricVars, dashVars>>

---------------------------------------------------------------------------
(* Bounds of the model *)

MaxLen == 4             \* longest series drawn for the scalar metrics
MaxSeriesLen == 36      \* longest series drawn for the indicator columns
MaxFuture == 1          \* most forecast rows appended to df_plot
NumStores == 2          \* stores simulated (20 in the script)
NumItems == 2           \* items simulated (15 in the script)
NumWeeks == 2           \* weeks of history simulated (156 in the script)
NumForecastWeeks == 2   \* forecast weeks simulated (6 in the script)
NumModels == 2          \* forecast models (5 in the script)
MaxSeed == 1            \* the generator tables tried are 0..MaxSeed

ActualVals == {0, 100}          \* Actuals are Poisson counts: never negative
ForecastVals == {90, 100, 110}

---------------------------------------------------------------------------
(* Numbers *)

RECURSIVE Gcd(_, _)
Gcd(a, b) == IF b = 0 THEN a ELSE Gcd(b, a % b)

Abs(x) == IF x < 0 THEN -x ELSE x

\* a rational in lowest terms with a positive denominator
Num(n, d) ==
    LET g == Gcd(Abs(n), Abs(d))
        s == IF d < 0 THEN -1 ELSE 1
    IN  [kind |-> "num", n |-> s * (n \div g), d |-> s * (d \div g)]

NaN == [kind |-> "nan", n |-> 0, d |-> 1]
Inf == [kind |-> "inf", n |-> 1, d |-> 1]
\* the Python int 0 of an `else 0` branch
IntZero == [kind |-> "int", n |-> 0, d |-> 1]
\* numpy's "operands could not be broadcast together"
ValueError == [kind |-> "ValueError", n |-> 0, d |-> 1]

\* numpy scalar division x / y of two integers: a zero divisor gives nan or
\* inf (with a RuntimeWarning), never an exception
NpDivide(x, y) ==
    IF y # 0 THEN Num(x, y)
    ELSE IF x = 0 THEN NaN
    ELSE Inf

\* mutant of NpAbs: the sign of an error is kept
NpAbsSigned(x) == x

\* np.abs on one element
NpAbs(x) == Abs(x)

RECURSIVE NpSum(_)
\* np.sum of an integer array (0 for an empty one)
NpSum(s) == IF s = <<>> THEN 0 ELSE Head(s) + NpSum(Tail(s))

\* values[-n:] : Python slice from index -n to the end; -0 is 0, so n = 0
\* selects the whole array, and so does any n >= len(values)
SliceLast(values, n) ==
    IF n = 0 \/ n >= Len(values) THEN values
    ELSE SubSeq(values, Len(values) - n + 1, Len(values))

\* actual - pred on numpy arrays: shapes must be equal or one of them (1,)
NpSubtract(a, p) ==
    IF Len(a) = Len(p)
      THEN [ok |-> TRUE, val |-> [i \in 1..Len(a) |-> a[i] - p[i]]]
    ELSE IF Len(a) = 1
      THEN [ok |-> TRUE, val |-> [i \in 1..Len(p) |-> a[1] - p[i]]]
    ELSE IF Len(p) = 1
      THEN [ok |-> TRUE, val |-> [i \in 1..Len(a) |-> a[i] - p[1]]]
    ELSE [ok |-> FALSE, val |-> <<>>]

---------------------------------------------------------------------------
(* tab2: WMAPE of one model *)

\* mutant of WmapeOf: the division-by-zero guard is missing
WmapeUnguarded(actual, pred) ==
    LET diff == NpSubtract(actual, pred)
    IN  IF diff.ok
          THEN NpDivide(NpSum([i \in 1..Len(diff.val) |-> NpAbs(diff.val[i])]),
                        NpSum(actual))
          ELSE ValueError

\* line 178; the condition of `x if c else 0` is evaluated first, so the
\* subtraction only runs when the sum is not zero
WmapeOf(actual, pred) ==
    IF NpSum(actual) # 0
      THEN LET diff == NpSubtract(actual, pred)
           IN  IF diff.ok
                 THEN NpDivide(
                        NpSum([i \in 1..Len(diff.val) |-> NpAbs(diff.val[i])]),
                        NpSum(actual))
                 ELSE ValueError
      ELSE IntZero

SeqsUpTo(S, n) == UNION {[1..k -> S] : k \in 0..n}

\* the variables a computation does not use keep these values
IdleWmape == forecast = <<>> /\ aligned = <<>> /\ wmape = IntZero
IdlePromo == promo = <<>> /\ promo_impact = IntZero
IdleSharpe == returns = <<>> /\ sharpe_ratio = IntZero
IdleSeries ==
    /\ n_future = 0
    /\ moving_avg_weeks = {}
    /\ df_plot = <<>>
    /\ df_metrics = <<>>
IdleDashboard ==
    /\ cache = <<>>
    /\ widget_identity = "key"
    /\ store_selected = 1
    /\ item_selected = 1
    /\ region_selected = "North"
    /\ reset_pressed = FALSE
    /\ session_state = <<>>
    /\ df_actuals = <<>>
    /\ df_forecasts = <<>>
    /\ original_forecasts = <<>>
    /\ df_hist = <<>>
    /\ df_future = <<>>
    /\ wmape_scores = <<>>
    /\ error = ""

InitWmape ==
    /\ pc = "input"
    /\ actuals \in SeqsUpTo(ActualVals, MaxLen)
    \* tab1 has read the first forecast row before tab2 runs (line 124)
    /\ forecast \in SeqsUpTo(ForecastVals, MaxLen) \ {<<>>}
    /\ aligned = <<>>
    /\ wmape = IntZero
    /\ metric = ""
    /\ IdlePromo /\ IdleSharpe /\ IdleSeries /\ IdleDashboard

\* lines 176-179 for one model
WmapeLoopBody ==
    /\ pc = "input"
    /\ aligned' = SliceLast(actuals, Len(forecast))
    /\ wmape' = WmapeOf(aligned', forecast)
    /\ pc' = "done"
    /\ UNCHANGED <<actuals, forecast, promo, promo_impact, returns,
                   sharpe_ratio, metric, n_future, moving_avg_weeks, df_plot,
                   df_metrics,
                   dashVars>>

NextWmape == WmapeLoopBody

SpecWmape == InitWmape /\ [][NextWmape]_vars

---------------------------------------------------------------------------
(* Floating-point arithmetic on [kind, n, d] *)

IsNaN(x) == x.kind = "nan"
IsInf(x) == x.kind = "inf"

\* inf carries its sign in n
InfOf(sign) == [kind |-> "inf", n |-> sign, d |-> 1]

Sign(k) == IF k < 0 THEN -1 ELSE IF k > 0 THEN 1 ELSE 0

FNeg(x) ==
    IF IsNaN(x) THEN NaN
    ELSE IF IsInf(x) THEN InfOf(-x.n)
    ELSE Num(-x.n, x.d)

FAdd(x, y) ==
    IF IsNaN(x) \/ IsNaN(y) THEN NaN
    ELSE IF IsInf(x) /\ IsInf(y) THEN (IF x.n = y.n THEN x ELSE NaN)
    ELSE IF IsInf(x) THEN x
    ELSE IF IsInf(y) THEN y
    ELSE Num(x.n * y.d + y.n * x.d, x.d * y.d)

FSub(x, y) == FAdd(x, FNeg(y))

FMul(x, y) ==
    IF IsNaN(x) \/ IsNaN(y) THEN NaN
    ELSE IF IsInf(x) \/ IsInf(y)
      THEN (IF x.n = 0 \/ y.n = 0 THEN NaN ELSE InfOf(Sign(x.n) * Sign(y.n)))
    ELSE Num(x.n * y.n, x.d * y.d)

\* IEEE division: x/0 is inf for x # 0 and nan for 0/0
FDiv(x, y) ==
    IF IsNaN(x) \/ IsNaN(y) THEN NaN
    ELSE IF IsInf(x) THEN (IF IsInf(y) THEN NaN
                           ELSE InfOf(x.n * (IF y.n < 0 THEN -1 ELSE 1)))
    ELSE IF IsInf(y) THEN Num(0, 1)
    ELSE IF y.n = 0 THEN (IF x.n = 0 THEN NaN ELSE InfOf(Sign(x.n)))
    ELSE Num(x.n * y.d, x.d * y.n)

\* sqrt(x) for x >= 0, kept symbolic: [kind "sqrt", n, d] is sqrt(n/d)
FSqrt(x) ==
    IF x.kind = "num" THEN [kind |-> "sqrt", n |-> x.n, d |-> x.d] ELSE x

IsZero(x) == x.kind \in {"num", "sqrt", "int"} /\ x.n = 0

\* m / s for a rational m and a square root s # 0, kept symbolic:
\* [kind "quot", n, d] is sign(n) * sqrt(|n|/d)
FDivBySqrt(m, s) ==
    IF IsNaN(m) \/ IsNaN(s) THEN NaN
    ELSE IF IsInf(m) THEN m
    ELSE IF s.n = 0 THEN (IF m.n = 0 THEN NaN ELSE InfOf(Sign(m.n)))
    ELSE LET q == Num(m.n * m.n * s.d, m.d * m.d * s.n)
         IN  [kind |-> "quot", n |-> Sign(m.n) * q.n, d |-> q.d]

RECURSIVE FSumTo(_, _)
FSumTo(s, k) == IF k = 0 THEN Num(0, 1) ELSE FAdd(FSumTo(s, k - 1), s[k])

\* the sum of a series of floats, left to right
FSum(s) == FSumTo(s, Len(s))

NotNaN(x) == ~IsNaN(x)

\* Series.mean(): NaN entries are skipped; the mean of nothing is nan
SeriesMean(s) ==
    LET obs == SelectSeq(s, NotNaN)
    IN  IF obs = <<>> THEN NaN ELSE FDiv(FSum(obs), Num(Len(obs), 1))

\* variance of the non-NaN entries with `ddof` delta degrees of freedom;
\* nan when count - ddof <= 0, and when an entry is infinite (inf - inf)
SeriesVar(s, ddof) ==
    LET obs == SelectSeq(s, NotNaN)
        avg == SeriesMean(s)
        dev == SubSeq([i \in 1..Len(obs) |-> FSub(obs[i], avg)], 1, Len(obs))
    IN  IF Len(obs) - ddof <= 0 THEN NaN
        ELSE FDiv(FSum([i \in 1..Len(obs) |-> FMul(dev[i], dev[i])]),
                  Num(Len(obs) - ddof, 1))

\* Series.std(): sample standard deviation (ddof = 1)
SeriesStd(s) == FSqrt(SeriesVar(s, 1))

\* what an f-string shows of a float (the digits are not modelled)
FormatFloat(x) ==
    IF IsNaN(x) THEN "nan"
    ELSE IF IsInf(x) THEN (IF x.n < 0 THEN "-inf" ELSE "inf")
    ELSE "number"

Float(k) == Num(k, 1)

---------------------------------------------------------------------------
(* tab6: promo volume impact *)

PromoVals == {5, 10, 30}

\* df_hist[df_hist['Promo'] == flag]['Actuals']
ActualsWherePromo(acts, flags, flag) ==
    LET idx == SelectSeq([i \in 1..Len(acts) |-> i],
                         LAMBDA i : flags[i] = flag)
    IN  [k \in 1..Len(idx) |-> Float(acts[idx[k]])]

\* line 236
PromoImpactOf(acts, flags) ==
    FSub(SeriesMean(ActualsWherePromo(acts, flags, 1)),
         SeriesMean(ActualsWherePromo(acts, flags, 0)))

InitPromo ==
    /\ pc = "input"
    /\ \E k \in 0..MaxLen :
         /\ actuals \in [1..k -> PromoVals]
         /\ promo \in [1..k -> {0, 1}]
    /\ promo_impact = IntZero
    /\ metric = ""
    /\ IdleWmape /\ IdleSharpe /\ IdleSeries /\ IdleDashboard

\* lines 236-237
PromoTab ==
    /\ pc = "input"
    /\ promo_impact' = PromoImpactOf(actuals, promo)
    /\ metric' = FormatFloat(promo_impact')
    /\ pc' = "done"
    /\ UNCHANGED <<actuals, forecast, aligned, wmape, promo, returns,
                   sharpe_ratio, n_future, moving_avg_weeks, df_plot,
                   df_metrics,
                   dashVars>>

NextPromo == PromoTab

SpecPromo == InitPromo /\ [][NextPromo]_vars

---------------------------------------------------------------------------
(* tab5: Sharpe ratio *)

SharpeVals == {0, 50, 100, 200}

\* Series.pct_change(): values / values.shift(1) - 1; no entry for the
\* first row
PctChange(acts) ==
    [i \in 1..Len(acts) |->
        IF i = 1 THEN NaN
        ELSE FSub(FDiv(Float(acts[i]), Float(acts[i - 1])), Float(1))]

\* mutant of SharpeOf: the division-by-zero guard is missing
SharpeUnguarded(rets) == FDivBySqrt(SeriesMean(rets), SeriesStd(rets))

\* line 231; nan != 0 is true, so a nan deviation takes the division
SharpeOf(rets) ==
    IF ~IsZero(SeriesStd(rets))
      THEN FDivBySqrt(SeriesMean(rets), SeriesStd(rets))
      ELSE IntZero

InitSharpe ==
    /\ pc = "input"
    /\ actuals \in SeqsUpTo(SharpeVals, MaxLen)
    /\ returns = <<>>
    /\ sharpe_ratio = IntZero
    /\ metric = ""
    /\ IdleWmape /\ IdlePromo /\ IdleSeries /\ IdleDashboard

\* lines 230-232
SharpeTab ==
    /\ pc = "input"
    /\ returns' = PctChange(actuals)
    /\ sharpe_ratio' = SharpeOf(returns')
    /\ metric' = FormatFloat(sharpe_ratio')
    /\ pc' = "done"
    /\ UNCHANGED <<actuals, forecast, aligned, wmape, promo, promo_impact,
                   n_future, moving_avg_weeks, df_plot, df_metrics,
                   dashVars>>

NextSharpe == SharpeTab

SpecSharpe == InitSharpe /\ [][NextSharpe]_vars

---------------------------------------------------------------------------
(* tab1, tab3, tab4: the sequence-valued metrics *)

\* a finite float whose value the model does not track (an exponential
\* moving average has no small exact representation)
SomeFloat == [kind |-> "float", n |-> 0, d |-> 1]

MovingAverageChoices == {3, 5, 10}      \* line 82
StdDevWindow == 10                     \* line 211
\* the defaults of the ta indicators the script calls without arguments
RsiWindow == 14
MacdFast == 12
MacdSlow == 26
MacdSign == 9
BollingerWindow == 20
BollingerDev == 2

Max(a, b) == IF a > b THEN a ELSE b

\* a column as a sequence of its values (each is computed once)
AsSeries(f) == SubSeq(f, 1, Len(f))

\* the observations (non-NaN entries) of the window of `w` rows ending at i
WindowObs(col, i, w) == SelectSeq(SubSeq(col, Max(1, i - w + 1), i), NotNaN)

\* mutant of RollingMinPeriods: one observation is enough
RollingMinPeriodsOne(w) == 1

\* Series.rolling(window=w): min_periods defaults to the window
RollingMinPeriods(w) == w

\* Series.rolling(w, min_periods).mean()
RollingMean(col, w, min_periods) ==
    LET c == AsSeries(col)
    IN  AsSeries([i \in 1..Len(c) |->
            IF Len(WindowObs(c, i, w)) < min_periods THEN NaN
            ELSE SeriesMean(WindowObs(c, i, w))])

\* Series.rolling(w, min_periods).std(ddof)
RollingStd(col, w, min_periods, ddof) ==
    LET c == AsSeries(col)
    IN  AsSeries([i \in 1..Len(c) |->
            IF Len(WindowObs(c, i, w)) < min_periods THEN NaN
            ELSE FSqrt(SeriesVar(WindowObs(c, i, w), ddof))])

\* Series.ewm(..., min_periods, adjust=False).mean(): nan until
\* min_periods observations have been seen
EwmMean(col, min_periods) ==
    LET c == AsSeries(col)
    IN  AsSeries([i \in 1..Len(c) |->
            IF Len(SelectSeq(SubSeq(c, 1, i), NotNaN)) < min_periods THEN NaN
            ELSE SomeFloat])

\* ta: min_periods = 0 if fillna else window, and fillna defaults to False
TaMinPeriods(w) == w

\* close.diff(1).where(diff > 0, 0.0) and its mirror: the gains and the
\* losses; the first row (no difference) counts as 0.0
UpDirection(close) ==
    [i \in 1..Len(close) |->
        IF i > 1 /\ close[i] > close[i - 1]
          THEN Float(close[i] - close[i - 1]) ELSE Float(0)]

DownDirection(close) ==
    [i \in 1..Len(close) |->
        IF i > 1 /\ close[i] < close[i - 1]
          THEN Float(close[i - 1] - close[i]) ELSE Float(0)]

\* ta.momentum.RSIIndicator(close).rsi():
\* np.where(emadn == 0, 100, 100 - 100 / (1 + emaup / emadn))
Rsi(close) ==
    LET emaup == EwmMean(UpDirection(close), TaMinPeriods(RsiWindow))
        emadn == EwmMean(DownDirection(close), TaMinPeriods(RsiWindow))
    IN  [i \in 1..Len(close) |->
            IF IsNaN(emaup[i]) \/ IsNaN(emadn[i]) THEN NaN ELSE SomeFloat]

\* ta.trend.MACD(close).macd(): EMA(fast) - EMA(slow)
Macd(close) ==
    LET col == [i \in 1..Len(close) |-> Float(close[i])]
        emafast == EwmMean(col, TaMinPeriods(MacdFast))
        emaslow == EwmMean(col, TaMinPeriods(MacdSlow))
    IN  AsSeries([i \in 1..Len(close) |->
            IF IsNaN(emafast[i]) \/ IsNaN(emaslow[i]) THEN NaN
            ELSE SomeFloat])

\* ta.trend.MACD(close).macd_signal(): EMA(sign) of the MACD line
MacdSignal(close) == EwmMean(Macd(close), TaMinPeriods(MacdSign))

\* mavg + k * mstd, kept symbolic
BandValue(mavg, mstd, k) ==
    IF IsNaN(mavg) \/ IsNaN(mstd) THEN NaN
    ELSE [kind |-> "band", mavg |-> mavg, mstd |-> mstd, k |-> k]

\* ta.volatility.BollingerBands(close): bollinger_hband() is
\* mavg + dev * mstd and bollinger_lband() is mavg - dev * mstd, with mavg
\* and mstd (ddof = 0) over the window
BollingerBands(close) ==
    LET col == [i \in 1..Len(close) |-> Float(close[i])]
        mavg == RollingMean(col, BollingerWindow, TaMinPeriods(BollingerWindow))
        mstd == RollingStd(col, BollingerWindow,
                           TaMinPeriods(BollingerWindow), 0)
    IN  [hband |-> [i \in 1..Len(close) |->
                      BandValue(mavg[i], mstd[i], BollingerDev)],
         lband |-> [i \in 1..Len(close) |->
                      BandValue(mavg[i], mstd[i], -BollingerDev)]]

\* pd.concat([df_hist[...], df_future[...]], axis=0)['Actuals']: the rows
\* that come from df_future have no Actuals
PlotActuals(acts, future_rows) ==
    [i \in 1..(Len(acts) + future_rows) |->
        IF i <= Len(acts) THEN Float(acts[i]) ELSE NaN]

SeriesShapes == {"flat", "ramp", "sawtooth"}

\* the series drawn as df_hist['Actuals']
SeriesOf(shape, len) ==
    [i \in 1..len |->
        CASE shape = "flat" -> 100
          [] shape = "ramp" -> 80 + i
          [] shape = "sawtooth" -> 90 + 7 * (i % 4)]

InitSeries ==
    /\ pc = "tab1"
    /\ actuals \in {SeriesOf(shape, len) :
                      shape \in SeriesShapes, len \in 0..MaxSeriesLen}
    /\ n_future \in 0..MaxFuture
    /\ moving_avg_weeks \in SUBSET MovingAverageChoices
    /\ df_plot = <<>>
    /\ df_metrics = <<>>
    /\ metric = ""
    /\ IdleWmape /\ IdlePromo /\ IdleSharpe /\ IdleDashboard

\* lines 129-130 and 153-155
MovingAverages ==
    /\ pc = "tab1"
    /\ df_plot' =
         LET col == PlotActuals(actuals, n_future)
         IN  [Actuals |-> col,
              MA |-> [w \in moving_avg_weeks |->
                        RollingMean(col, w, RollingMinPeriods(w))]]
    /\ pc' = "tab3"
    /\ UNCHANGED <<actuals, forecast, aligned, wmape, promo, promo_impact,
                   returns, sharpe_ratio, metric, n_future, moving_avg_weeks,
                   df_metrics,
                   dashVars>>

\* lines 192-196
RsiAndMacd ==
    /\ pc = "tab3"
    /\ df_metrics' = [Actuals |-> actuals,
                      RSI |-> Rsi(actuals),
                      MACD |-> Macd(actuals),
                      MACD_Signal |-> MacdSignal(actuals)]
    /\ pc' = "tab4"
    /\ UNCHANGED <<actuals, forecast, aligned, wmape, promo, promo_impact,
                   returns, sharpe_ratio, metric, n_future, moving_avg_weeks,
                   df_plot,
                   dashVars>>

\* lines 211-214
StdDevAndBollinger ==
    /\ pc = "tab4"
    /\ df_metrics' =
         LET boll == BollingerBands(df_metrics.Actuals)         \* line 212
         IN
         [Actuals |-> df_metrics.Actuals,
          RSI |-> df_metrics.RSI,
          MACD |-> df_metrics.MACD,
          MACD_Signal |-> df_metrics.MACD_Signal,
          StdDev |-> RollingStd(
                       [i \in 1..Len(df_metrics.Actuals) |->
                          Float(df_metrics.Actuals[i])],
                       StdDevWindow, RollingMinPeriods(StdDevWindow), 1),
          Boll_Upper |-> boll.hband,
          Boll_Lower |-> boll.lband]
    /\ pc' = "done"
    /\ UNCHANGED <<actuals, forecast, aligned, wmape, promo, promo_impact,
                   returns, sharpe_ratio, metric, n_future, moving_avg_weeks,
                   df_plot,
                   dashVars>>

NextSeries == MovingAverages \/ RsiAndMacd \/ StdDevAndBollinger

SpecSeries == InitSeries /\ [][NextSeries]_vars

---------------------------------------------------------------------------
(* simulate_data *)

Regions == <<"North", "South", "East", "West">>         \* line 23
\* groupby(...) sorts its keys: the regions come out in alphabetical order
RegionsSorted == <<"East", "North", "South", "West">>

Stores == 1..NumStores          \* k stands for "Store_k"
Items == 1..NumItems            \* k stands for "Item_k"
Models == 1..NumModels
EditVals == {0, 95}             \* what a user types into a number_input

\* The k-th draw of the `random` module after random.seed(42), and of
\* numpy after np.random.seed(42).  The generators are seeded, so every run
\* of simulate_data sees the same table of draws; the table itself is one
\* of the tables `seed` ranges over.
RandomDraw(sd, k) == ((k + 1) * (k + 2) * (sd + 3) + 5 * k + sd) % 7
NumpyDraw(sd, k) == ((k + 3) * (k + 1) * (2 * sd + 5) + 11 * k) % 109

\* random.choice(regions)
RandomChoice(sd, k) == Regions[(RandomDraw(sd, k) % Len(Regions)) + 1]

PairIndex(s, i) == (s - 1) * NumItems + (i - 1)

\* line 28: one region per (store, item)
ActualRegion(sd, s, i) == RandomChoice(sd, PairIndex(s, i))

ForecastIndex(s, i, w, m) ==
    (PairIndex(s, i) * NumForecastWeeks + (w - 1)) * NumModels + (m - 1)

\* line 57: one region per forecast row (store, item, week, model)
ForecastRegion(sd, s, i, w, m) ==
    RandomChoice(sd, NumStores * NumItems + ForecastIndex(s, i, w, m))

\* line 59: np.random.randint(90, 200)
ForecastValue(sd, s, i, w, m) ==
    90 + (NumpyDraw(sd, NumStores * NumItems * NumWeeks
                        + ForecastIndex(s, i, w, m)) % 110)

\* lines 26-45: df_actuals, one row per store, item and week (the Promo and
\* Event columns are left out: nothing below reads them)
SimulatedActuals(sd) ==
    [r \in 1..(NumStores * NumItems * NumWeeks) |->
        LET s == ((r - 1) \div (NumItems * NumWeeks)) + 1
            i == (((r - 1) \div NumWeeks) % NumItems) + 1
            w == ((r - 1) % NumWeeks) + 1
        IN  [Store |-> s, Item |-> i, Region |-> ActualRegion(sd, s, i),
             Week |-> w, Actuals |-> NumpyDraw(sd, r - 1)]]

\* lines 48-63: every (store, item, week, model) row holds one model's
\* forecast under a region of its own; groupby(Store, Item, Region,
\* Week).sum() keeps one row per key that occurs, and a model without a
\* row under that key sums to 0
SimulatedForecasts(sd) ==
    LET nKeys == NumStores * NumItems * Len(RegionsSorted) * NumForecastWeeks
        KeyStore(g) ==
            ((g - 1) \div (NumItems * Len(RegionsSorted) * NumForecastWeeks)) + 1
        KeyItem(g) ==
            (((g - 1) \div (Len(RegionsSorted) * NumForecastWeeks)) % NumItems) + 1
        KeyRegion(g) ==
            RegionsSorted[(((g - 1) \div NumForecastWeeks) % Len(RegionsSorted)) + 1]
        KeyWeek(g) == ((g - 1) % NumForecastWeeks) + 1
        Occurs(g) ==
            \E m \in Models :
               ForecastRegion(sd, KeyStore(g), KeyItem(g), KeyWeek(g), m)
                 = KeyRegion(g)
        keys == SelectSeq([g \in 1..nKeys |-> g], Occurs)
    IN  [k \in 1..Len(keys) |->
            LET g == keys[k]
            IN  [Store |-> KeyStore(g), Item |-> KeyItem(g),
                 Region |-> KeyRegion(g), Week |-> NumWeeks + KeyWeek(g),
                 Forecast |->
                   [m \in Models |->
                      IF ForecastRegion(sd, KeyStore(g), KeyItem(g),
                                        KeyWeek(g), m) = KeyRegion(g)
                        THEN ForecastValue(sd, KeyStore(g), KeyItem(g),
                                           KeyWeek(g), m)
                        ELSE 0]]]

\* lines 13-65; st.cache_data hands every run its own copy of the result
SimulateData(sd) ==
    [df_actuals |-> SimulatedActuals(sd),
     df_forecasts |-> SimulatedForecasts(sd)]

---------------------------------------------------------------------------
(* One run of the script *)

RECURSIVE Unique(_)
\* Series.unique(): the distinct values in order of first appearance
Unique(col) ==
    IF col = <<>> THEN <<>>
    ELSE LET rest == Unique(SubSeq(col, 1, Len(col) - 1))
             last == col[Len(col)]
         IN  IF \E k \in 1..Len(rest) : rest[k] = last
               THEN rest ELSE Append(rest, last)

\* line 81: the options of the region selectbox
RegionOptions(actuals_table) ==
    Unique([r \in 1..Len(actuals_table) |-> actuals_table[r].Region])

\* lines 90-96: boolean-mask indexing, which copies the selected rows
FilterRows(df, s, i, rg) ==
    SelectSeq(df, LAMBDA row : row.Store = s /\ row.Item = i /\ row.Region = rg)

NoWidget == [live |-> FALSE, value |-> 0, default |-> 0]

\* st.number_input(value=default, key=...): a widget that lives on returns
\* the value held in session state.  A Streamlit that identifies a widget
\* by its key and its parameters sees a new widget when the default changed.
NumberInput(widget, default, identity) ==
    IF widget.live /\ (identity = "key" \/ widget.default = default)
      THEN [live |-> TRUE, value |-> widget.value, default |-> default]
      ELSE [live |-> TRUE, value |-> default, default |-> default]

\* mutant of AssignForecastColumn: df_future is a view, and the assignment
\* lands in the rows of df_forecasts it selects
AssignThroughView(frames, m, value) ==
    [df_forecasts |->
        [k \in 1..Len(frames.df_forecasts) |->
            IF \E j \in 1..Len(frames.df_future) :
                  /\ frames.df_future[j].Store = frames.df_forecasts[k].Store
                  /\ frames.df_future[j].Item = frames.df_forecasts[k].Item
                  /\ frames.df_future[j].Region = frames.df_forecasts[k].Region
                  /\ frames.df_future[j].Week = frames.df_forecasts[k].Week
              THEN [frames.df_forecasts[k] EXCEPT !.Forecast[m] = value]
              ELSE frames.df_forecasts[k]],
     df_future |->
        [j \in 1..Len(frames.df_future) |->
            [frames.df_future[j] EXCEPT !.Forecast[m] = value]]]

\* line 122: df_future[col] = scalar sets the column in every row of
\* df_future, which is a copy
AssignForecastColumn(frames, m, value) ==
    [df_forecasts |-> frames.df_forecasts,
     df_future |->
        [j \in 1..Len(frames.df_future) |->
            [frames.df_future[j] EXCEPT !.Forecast[m] = value]]]

RECURSIVE EditLoop(_, _, _)
\* lines 121-126 for the models m..NumModels
EditLoop(frames, widgets, m) ==
    IF m > NumModels THEN frames
    ELSE EditLoop(AssignForecastColumn(frames, m, widgets[m].value),
                  widgets, m + 1)

Column(df, m) == [k \in 1..Len(df) |-> df[k].Forecast[m]]

\* lines 174-179
WmapeScores(hist, future) ==
    [m \in Models |->
        WmapeOf(SliceLast([k \in 1..Len(hist) |-> hist[k].Actuals],
                          Len(Column(future, m))),
                Column(future, m))]

\* The script from line 67 to line 179 under the given widget values.
RunScript(data, identity, s, i, rg, reset, widgets) ==
    LET \* line 67: data is this run's copy of the cached tables
        saved == data.df_forecasts                      \* line 70
        table == IF reset THEN saved ELSE data.df_forecasts     \* lines 85-86
        hist == FilterRows(data.df_actuals, s, i, rg)
        future == FilterRows(table, s, i, rg)
    IN  IF future = <<>>
          \* line 124: iloc[0] of an empty frame; no widget of tab1 is
          \* drawn, and Streamlit drops the state of widgets not drawn
          THEN [df_actuals |-> data.df_actuals, df_forecasts |-> table,
                original_forecasts |-> saved, df_hist |-> hist,
                df_future |-> future,
                session_state |-> [m \in Models |-> NoWidget],
                wmape_scores |-> <<>>, error |-> "IndexError"]
          ELSE
            LET drawn == [m \in Models |->
                            NumberInput(widgets[m], future[1].Forecast[m],
                                        identity)]
                frames == EditLoop([df_forecasts |-> table,
                                    df_future |-> future], drawn, 1)
                scores == WmapeScores(hist, frames.df_future)
            IN  [df_actuals |-> data.df_actuals,
                 df_forecasts |-> frames.df_forecasts,
                 original_forecasts |-> saved, df_hist |-> hist,
                 df_future |-> frames.df_future,
                 session_state |-> drawn,
                 wmape_scores |-> scores,
                 error |-> IF \E m \in Models : scores[m].kind = "ValueError"
                             THEN "ValueError" ELSE ""]

\* the state a run leaves behind
Rerun(s, i, rg, reset, widgets) ==
    \E out \in {RunScript(cache, widget_identity, s, i, rg, reset, widgets)} :
        /\ store_selected' = s
        /\ item_selected' = i
        /\ region_selected' = rg
        /\ reset_pressed' = reset
        /\ session_state' = out.session_state
        /\ df_actuals' = out.df_actuals
        /\ df_forecasts' = out.df_forecasts
        /\ original_forecasts' = out.original_forecasts
        /\ df_hist' = out.df_hist
        /\ df_future' = out.df_future
        /\ wmape_scores' = out.wmape_scores
        /\ error' = out.error
        /\ UNCHANGED <<cache, widget_identity, metricVars>>

\* the first run: every selectbox shows its first option
Init ==
    /\ cache \in {SimulateData(sd) : sd \in 0..MaxSeed}
    /\ widget_identity \in {"key", "key and parameters"}
    /\ \E out \in {RunScript(cache, widget_identity, 1, 1,
                              RegionOptions(cache.df_actuals)[1], FALSE,
                              [m \in Models |-> NoWidget])} :
           /\ store_selected = 1
           /\ item_selected = 1
           /\ region_selected = RegionOptions(cache.df_actuals)[1]
           /\ reset_pressed = FALSE
           /\ session_state = out.session_state
           /\ df_actuals = out.df_actuals
           /\ df_forecasts = out.df_forecasts
           /\ original_forecasts = out.original_forecasts
           /\ df_hist = out.df_hist
           /\ df_future = out.df_future
           /\ wmape_scores = out.wmape_scores
           /\ error = out.error
    /\ pc = "dashboard"
    /\ actuals = <<>>
    /\ metric = ""
    /\ IdleWmape /\ IdlePromo /\ IdleSharpe /\ IdleSeries

\* line 79
SelectStore(s) ==
    /\ pc = "dashboard"
    /\ s # store_selected
    /\ Rerun(s, item_selected, region_selected, FALSE, session_state)

\* line 80
SelectItem(i) ==
    /\ pc = "dashboard"
    /\ i # item_selected
    /\ Rerun(store_selected, i, region_selected, FALSE, session_state)

\* line 81
SelectRegion(rg) ==
    /\ pc = "dashboard"
    /\ rg # region_selected
    /\ Rerun(store_selected, item_selected, rg, FALSE, session_state)

\* lines 122-126: the user types v into the number_input of model m, which
\* the last run has drawn
EditForecast(m, v) ==
    /\ pc = "dashboard"
    /\ session_state[m].live
    /\ v # session_state[m].value
    /\ Rerun(store_selected, item_selected, region_selected, FALSE,
             [session_state EXCEPT ![m].value = v])

\* lines 85-87
PressReset ==
    /\ pc = "dashboard"
    /\ Rerun(store_selected, item_selected, region_selected, TRUE,
             session_state)

Next ==
    \/ \E m \in Models, v \in EditVals : EditForecast(m, v)
    \/ PressReset
    \/ \E s \in Stores : SelectStore(s)
    \/ \E i \in Items : SelectItem(i)
    \/ \E k \in 1..Len(RegionOptions(cache.df_actuals)) :
          SelectRegion(RegionOptions(cache.df_actuals)[k])

Spec == Init /\ [][Next]_vars

---------------------------------------------------------------------------
(* Properties *)

RECURSIVE SumAbsError(_, _)
\* sum over i of |f_i - a_i| for two series of equal length
SumAbsError(a, f) ==
    IF a = <<>> THEN 0
    ELSE Abs(Head(f) - Head(a)) + SumAbsError(Tail(a), Tail(f))

RECURSIVE Total(_)
Total(a) == IF a = <<>> THEN 0 ELSE Head(a) + Total(Tail(a))

\* C1: for equal-length actual and forecast series with sum(actual) # 0 the
\* WMAPE is sum |forecast_i - actual_i| / sum actual_i; for
\* actual = [100,100,100,100], forecast = [110,90,100,100] it is 0.05.
WmapeIsErrorOverVolume ==
    /\ (pc = "done" /\ Len(actuals) = Len(forecast) /\ Total(actuals) # 0)
         => /\ wmape.kind = "num"
            /\ wmape.n * Total(actuals) = SumAbsError(actuals, forecast) * wmape.d
    /\ (pc = "done" /\ actuals = <<100, 100, 100, 100>>
                    /\ forecast = <<110, 90, 100, 100>>)
         => wmape = [kind |-> "num", n |-> 1, d |-> 20]

WmapeExampleComputed ==
    /\ pc = "done"
    /\ actuals = <<100, 100, 100, 100>>
    /\ forecast = <<110, 90, 100, 100>>
    /\ wmape.n = 1 /\ wmape.d = 20

\* C2: when sum(actual) = 0, an empty actual series included and whatever
\* the forecast, the WMAPE is exactly 0: no error and no nan.
WmapeZeroVolumeIsZero ==
    (pc = "done" /\ Total(actuals) = 0) => wmape = IntZero

WmapeZeroVolumeReached ==
    /\ pc = "done"
    /\ actuals = <<0, 0>>
    /\ Len(forecast) = 3
    /\ wmape = IntZero

PromoEmptyGroupIsAnError ==
    (pc = "done" /\ ((\A i \in 1..Len(promo) : promo[i] = 0)
                     \/ (\A j \in 1..Len(promo) : promo[j] = 1)))
      => promo_impact.kind = "InsufficientDataError" /\ metric # "nan"

\* the returns that exist are at least two and all the same finite number
ReturnsConstant ==
    LET obs == SelectSeq(returns, NotNaN)
    IN  /\ Len(obs) >= 2
        /\ \A i \in 1..Len(obs) : obs[i].kind = "num" /\ obs[i] = obs[1]

\* C5: whenever the standard deviation of the returns is 0 the Sharpe
\* ratio is exactly 0: the division by zero shows neither as an error nor
\* as a nan or an infinity.
SharpeZeroDeviationIsZero ==
    (pc = "done" /\ (ReturnsConstant \/ IsZero(SeriesStd(returns))))
      => sharpe_ratio = IntZero /\ metric = "number"

SharpeSteadyGrowthReached ==
    /\ pc = "done"
    /\ actuals = <<50, 100, 200>>
    /\ ReturnsConstant
    /\ sharpe_ratio = IntZero

\* C6: with fewer than 2 points the Sharpe computation fails with
\* InsufficientDataError instead of returning a number or an undefined value.
SharpeShortSeriesIsAnError ==
    (pc = "done" /\ Len(actuals) < 2)
      => sharpe_ratio.kind = "InsufficientDataError"

\* `col` is as long as its input and has no value at indices 0..w-2
AlignedWithLeadingGap(col, input_len, w) ==
    /\ Len(col) = input_len
    /\ \A i \in 1..Len(col) : i <= w - 1 => IsNaN(col[i])

\* C8: the rolling standard deviation (window 10), the k-week moving
\* averages, the Bollinger bands, RSI and MACD are each exactly as long as
\* their input series, and undefined at indices 0..w-2 of a trailing
\* window w.
SeriesMetricsAligned ==
    /\ pc \in {"tab3", "tab4", "done"} =>
         \A w \in moving_avg_weeks :
            AlignedWithLeadingGap(df_plot.MA[w], Len(df_plot.Actuals), w)
    /\ pc \in {"tab4", "done"} =>
         /\ AlignedWithLeadingGap(df_metrics.RSI, Len(actuals), RsiWindow)
         /\ AlignedWithLeadingGap(df_metrics.MACD, Len(actuals), MacdSlow)
         /\ AlignedWithLeadingGap(df_metrics.MACD_Signal, Len(actuals),
                                  MacdSign)
    /\ pc = "done" =>
         /\ AlignedWithLeadingGap(df_metrics.StdDev, Len(actuals),
                                  StdDevWindow)
         /\ AlignedWithLeadingGap(df_metrics.Boll_Upper, Len(actuals),
                                  BollingerWindow)
         /\ AlignedWithLeadingGap(df_metrics.Boll_Lower, Len(actuals),
                                  BollingerWindow)

SeriesMetricsDefinedLater ==
    /\ pc = "done"
    /\ Len(actuals) >= MacdSlow + MacdSign - 1
    /\ moving_avg_weeks = MovingAverageChoices
    /\ IsNaN(df_plot.MA[10][9]) /\ ~IsNaN(df_plot.MA[10][10])
    /\ IsNaN(df_metrics.StdDev[9]) /\ ~IsNaN(df_metrics.StdDev[10])
    /\ IsNaN(df_metrics.RSI[13]) /\ ~IsNaN(df_metrics.RSI[14])
    /\ IsNaN(df_metrics.MACD[25]) /\ ~IsNaN(df_metrics.MACD[26])
    /\ IsNaN(df_metrics.MACD_Signal[33]) /\ ~IsNaN(df_metrics.MACD_Signal[34])
    /\ IsNaN(df_metrics.Boll_Upper[19]) /\ ~IsNaN(df_metrics.Boll_Lower[20])

\* the simulated forecast rows of the selected store, item and region
OriginalFuture ==
    FilterRows(cache.df_forecasts, store_selected, item_selected,
               region_selected)

\* C7: for every selectable combination of store, item and region, df_hist
\* and df_future are both non-empty, so reading the first forecast row
\* never fails.
FilteredFramesNonEmpty ==
    pc = "dashboard" =>
        /\ df_hist # <<>>
        /\ df_future # <<>>
        /\ error # "IndexError"

\* C9: in the run that a press of Reset Forecasts triggers, the forecasts
\* shown in the chart and used for the WMAPE comparison are the originally
\* simulated forecasts of the selected store, item and region.
ResetRestoresForecasts ==
    (pc = "dashboard" /\ reset_pressed /\ error = "")
      => /\ df_future = OriginalFuture
         /\ wmape_scores = WmapeScores(df_hist, OriginalFuture)

\* C10: no sequence of edits, filter changes and resets changes df_forecasts
\* or original_forecasts: both always equal the forecast table that
\* simulate_data returned, and df_actuals is never written.
ForecastTablesUntouched ==
    pc = "dashboard" =>
        /\ cache \in {SimulateData(sd) : sd \in 0..MaxSeed}
        /\ df_forecasts = cache.df_forecasts
        /\ original_forecasts = cache.df_forecasts
        /\ df_actuals = cache.df_actuals

EditedThenReset ==
    /\ pc = "dashboard"
    /\ reset_pressed
    /\ error = ""
    /\ \E m \in Models :
          /\ session_state[m].value \in EditVals
          /\ session_state[m].value # OriginalFuture[1].Forecast[m]
          /\ df_future[1].Forecast[m] = session_state[m].value
    /\ df_forecasts = cache.df_forecasts

=============================================================================
